---- MODULE Spec2Model ----
(***************************************************************************)
(* A model of the typeform-rs crate (src/src/lib.rs): the Typeform client, *)
(* its two fetch operations, and the serde-derived decoding of a response  *)
(* body into Responses.                                                    *)
(*                                                                         *)
(* Strings that the program composes (URLs, header values) are sequences   *)
(* of one-character strings, so that format! and str::replace are computed *)
(* character by character.  Strings the program only carries (JSON keys    *)
(* and JSON string values) are TLA+ strings.                               *)
(***************************************************************************)
EXTENDS Integers, Sequences, FiniteSets, TLC

(***************************************************************************)
(* Bounds of the model.                                                    *)
(***************************************************************************)
\* Longest "items" array in the generated documents.
MaxItems == 2

(***************************************************************************)
(* Program constants.                                                      *)
(***************************************************************************)
DEFAULT_TYPEFORM_URL ==
    <<"h","t","t","p","s",":","/","/","a","p","i",".",
      "t","y","p","e","f","o","r","m",".","c","o","m">>

GET_FORM_RESPONSES_PATH ==
    <<"/","f","o","r","m","s","/","{","f","o","r","m","_","i","d","}",
      "/","r","e","s","p","o","n","s","e","s">>

\* The placeholder that Typeform::responses replaces in the path.
FormIdPlaceholder == <<"{","f","o","r","m","_","i","d","}">>

\* Largest values of the integer types of the decoded model.
U16Max == 65535
U8Max == 255
I32Max == 2147483647

(***************************************************************************)
(* str::replace: every non-overlapping match of `from`, left to right, is  *)
(* replaced by `to`; the inserted text is not scanned again.               *)
(***************************************************************************)
RECURSIVE Replace(_, _, _)
Replace(s, from, to) ==
    IF Len(s) < Len(from) THEN s
    ELSE IF SubSeq(s, 1, Len(from)) = from
         THEN to \o Replace(SubSeq(s, Len(from) + 1, Len(s)), from, to)
         ELSE <<s[1]>> \o Replace(Tail(s), from, to)

(***************************************************************************)
(* JSON documents.  A JSON value is a record of one shape:                 *)
(*   k: "null" | "bool" | "int" | "negzero" | "big" | "float" | "str" |    *)
(*      "arr" | "obj", or "invalid" for a body whose text is not JSON;     *)
(*   n: the number (1/0 for true/false), s: the string, a: the elements,   *)
(*   o: the members as a sequence of <<key, value>> in document order.     *)
(***************************************************************************)
JVal(k, n, s, a, o) == [k |-> k, n |-> n, s |-> s, a |-> a, o |-> o]
JNull == JVal("null", 0, "", <<>>, <<>>)
JTrue == JVal("bool", 1, "", <<>>, <<>>)
JFalse == JVal("bool", 0, "", <<>>, <<>>)
JInt(n) == JVal("int", n, "", <<>>, <<>>)
\* The integer literal -0: serde_json reads it as the float -0.0.
JNegZero == JVal("negzero", 0, "", <<>>, <<>>)
\* A positive integer beyond the range of i32.
JBig == JVal("big", 0, "", <<>>, <<>>)
\* A number with a fraction or exponent (serde_json visits it as f64).
JFloat == JVal("float", 0, "", <<>>, <<>>)
JStr(s) == JVal("str", 0, s, <<>>, <<>>)
JArr(a) == JVal("arr", 0, "", a, <<>>)
JObj(o) == JVal("obj", 0, "", <<>>, o)
JInvalid == JVal("invalid", 0, "", <<>>, <<>>)

(***************************************************************************)
(* The types of the decoded model, as data.                                *)
(***************************************************************************)
Ty(t, name, of, lo, hi) == [t |-> t, name |-> name, of |-> of, lo |-> lo, hi |-> hi]
TString == Ty("String", "", <<>>, 0, 0)
TBool == Ty("bool", "", <<>>, 0, 0)
TI32 == Ty("int", "i32", <<>>, -I32Max - 1, I32Max)
TU16 == Ty("int", "u16", <<>>, 0, U16Max)
TU8 == Ty("int", "u8", <<>>, 0, U8Max)
TOption(T) == Ty("Option", "", <<T>>, 0, 0)
TVec(T) == Ty("Vec", "", <<T>>, 0, 0)
TStruct(name) == Ty("struct", name, <<>>, 0, 0)
TNewtype(name, T) == Ty("newtype", name, <<T>>, 0, 0)
TEnum(name) == Ty("enum", name, <<>>, 0, 0)

\* One field of a struct: its Rust name, its key on the wire, its type.
Fld(field, wire, ty) == [field |-> field, wire |-> wire, ty |-> ty]
\* One unit variant of an enum: its Rust name and its name on the wire.
Variant(variant, wire) == [variant |-> variant, wire |-> wire]

Responses ==
    << Fld("total_items", "total_items", TOption(TU16)),
       Fld("page_count", "page_count", TOption(TU8)),
       Fld("items", "items", TVec(TStruct("Response"))) >>

Fields == TVec(TStruct("Field"))

Answers == TNewtype("Answers", TVec(TStruct("Answer")))

Response ==
    << Fld("token", "token", TString),
       Fld("response_id", "response_id", TOption(TString)),
       Fld("landed_at", "landed_at", TString),
       Fld("submitted_at", "submitted_at", TString),
       Fld("metadata", "metadata", TStruct("Metadata")),
       Fld("definition", "definition", TOption(TStruct("Definition"))),
       Fld("answers", "answers", TOption(Answers)),
       Fld("calculated", "calculated", TStruct("Calculated")) >>

Metadata ==
    << Fld("user_agent", "user_agent", TString),
       Fld("platform", "platform", TOption(TString)),
       Fld("referer", "referer", TString),
       Fld("network_id", "network_id", TString) >>

Definition == << Fld("fields", "fields", Fields) >>

\* Field::_type carries no serde rename: its wire key is the field's name.
Field ==
    << Fld("id", "id", TString),
       Fld("_type", "_type", TString),
       Fld("title", "title", TString),
       Fld("description", "description", TString) >>

\* The field table Field would have with #[serde(rename = "type")] on _type.
FieldRenamed ==
    << Fld("id", "id", TString),
       Fld("_type", "type", TString),
       Fld("title", "title", TString),
       Fld("description", "description", TString) >>

Answer ==
    << Fld("field", "field", TStruct("AnswerField")),
       Fld("_type", "type", TEnum("AnswerType")),
       Fld("choice", "choice", TOption(TStruct("Choice"))),
       Fld("choices", "choices", TOption(TStruct("Choices"))),
       Fld("date", "date", TOption(TString)),
       Fld("email", "email", TOption(TString)),
       Fld("file_url", "file_url", TOption(TString)),
       Fld("number", "number", TOption(TI32)),
       Fld("boolean", "boolean", TOption(TBool)),
       Fld("text", "text", TOption(TString)),
       Fld("url", "url", TOption(TString)),
       Fld("payment", "payment", TOption(TStruct("Payment"))),
       Fld("phone_number", "phone_number", TOption(TString)) >>

AnswerField ==
    << Fld("id", "id", TString),
       Fld("_type", "type", TString),
       Fld("_ref", "ref", TString),
       Fld("title", "title", TOption(TString)) >>

\* #[serde(rename_all = "snake_case")] names each variant on the wire.
AnswerType ==
    << Variant("Choice", "choice"),
       Variant("Choices", "choices"),
       Variant("Date", "date"),
       Variant("Email", "email"),
       Variant("Url", "url"),
       Variant("FileUrl", "file_url"),
       Variant("Number", "number"),
       Variant("Boolean", "boolean"),
       Variant("Text", "text"),
       Variant("Payment", "payment"),
       Variant("PhoneNumber", "phone_number") >>

Labels == TVec(TString)

Choice ==
    << Fld("label", "label", TString),
       Fld("other", "other", TOption(TString)) >>

Choices ==
    << Fld("labels", "labels", Labels),
       Fld("other", "other", TOption(TString)) >>

Payment ==
    << Fld("amount", "amount", TString),
       Fld("last4", "last4", TString),
       Fld("name", "name", TString) >>

Calculated == << Fld("score", "score", TI32) >>

StructFields(name) ==
    CASE name = "Responses" -> Responses
      [] name = "Response" -> Response
      [] name = "Metadata" -> Metadata
      [] name = "Definition" -> Definition
      [] name = "Field" -> Field
      [] name = "Answer" -> Answer
      [] name = "AnswerField" -> AnswerField
      [] name = "Choice" -> Choice
      [] name = "Choices" -> Choices
      [] name = "Payment" -> Payment
      [] name = "Calculated" -> Calculated

(***************************************************************************)
(* #[derive(Deserialize)] over serde_json.  A decode yields [ok, v]; v is  *)
(* <<>> when ok is FALSE.  Decoded values: String -> string, integer ->    *)
(* Int, bool -> BOOLEAN, Option -> <<>> (None) or <<x>> (Some(x)), Vec ->  *)
(* sequence, struct -> function from its field names, unit variant -> the  *)
(* variant's name, newtype struct -> the 1-tuple of its field.             *)
(***************************************************************************)
Ok(v) == [ok |-> TRUE, v |-> v]
Err == [ok |-> FALSE, v |-> <<>>]

\* The members of object j under key `wire`, as indices into j.o.
Members(j, wire) == {i \in 1..Len(j.o) : j.o[i][1] = wire}

\* Every missing key is the error "missing field" ...
MissingStrict(ty) == Err

\* ... or every missing field resolves to an empty value.
MissingDefault(ty) == Ok(<<>>)

\* A key absent from the object: Option resolves to None, anything else is
\* the error "missing field".
MissingField(ty) == IF ty.t = "Option" THEN Ok(<<>>) ELSE Err

\* #[serde(deny_unknown_fields)]: only the struct's own keys are accepted.
KeyDenied(key, fields) == \E i \in 1..Len(fields) : fields[i].wire = key

\* Every key is accepted: the value of a key that names no field of the
\* struct is skipped.
KeyOk(key, fields) == TRUE

\* null for an Option is None.
NullIsNone(ty, j) == j.k = "null"

\* An integer is accepted when it fits the target type; the literal -0,
\* read as a float, is not.
IntFits(ty, j) == j.k = "int" /\ ty.lo <= j.n /\ j.n <= ty.hi

\* The wire name of a variant.
WireOf(variant) ==
    AnswerType[CHOOSE i \in 1..Len(AnswerType) : AnswerType[i].variant = variant].wire

\* A decode that holds an Answer to its discriminant: the slot it names,
\* and no other, is present.
CrossFieldExclusive(name, v) ==
    name = "Answer" =>
        \A i \in 1..Len(AnswerType) :
            (v[AnswerType[i].wire] # <<>>) <=> (AnswerType[i].wire = WireOf(v["_type"]))

\* The derived decoder fills each field from its own key: no check relates
\* one field of a struct to another.
CrossFieldCheck(name, v) == TRUE

RECURSIVE Decode(_, _)
Decode(ty, j) ==
    CASE ty.t = "String" -> IF j.k = "str" THEN Ok(j.s) ELSE Err
      [] ty.t = "bool" -> IF j.k = "bool" THEN Ok(j.n = 1) ELSE Err
      [] ty.t = "int" -> IF IntFits(ty, j) THEN Ok(j.n) ELSE Err
      [] ty.t = "Option" ->
            IF NullIsNone(ty, j) THEN Ok(<<>>)
            ELSE LET r == Decode(ty.of[1], j)
                 IN  IF r.ok THEN Ok(<<r.v>>) ELSE Err
      [] ty.t = "Vec" ->
            IF j.k # "arr" THEN Err
            ELSE LET rs == [i \in 1..Len(j.a) |-> Decode(ty.of[1], j.a[i])]
                 IN  IF \A i \in 1..Len(j.a) : rs[i].ok
                     THEN Ok([i \in 1..Len(j.a) |-> rs[i].v])
                     ELSE Err
      [] ty.t = "newtype" ->
            LET r == Decode(ty.of[1], j)
            IN  IF r.ok THEN Ok(<<r.v>>) ELSE Err
      [] ty.t = "enum" ->
            \* a unit variant is its name as a string, or {"name": null}
            LET vs == AnswerType
                name == IF j.k = "str" THEN <<j.s>>
                        ELSE IF j.k = "obj" /\ Len(j.o) = 1 /\ j.o[1][2].k = "null"
                             THEN <<j.o[1][1]>>
                             ELSE <<>>
                hit == {i \in 1..Len(vs) : name # <<>> /\ vs[i].wire = name[1]}
            IN  IF hit = {} THEN Err
                ELSE Ok(vs[CHOOSE i \in hit : TRUE].variant)
      [] ty.t = "struct" ->
            LET fields == StructFields(ty.name)
                n == Len(fields)
                \* visit_map: a JSON object
                OfMember(f) ==
                    LET idx == Members(j, f.wire)
                    IN  IF idx = {} THEN MissingField(f.ty)
                        ELSE IF Cardinality(idx) > 1 THEN Err
                        ELSE Decode(f.ty, j.o[CHOOSE i \in idx : TRUE][2])
                \* visit_seq: a JSON array of exactly the fields, in order
                OfElement(i) == Decode(fields[i].ty, j.a[i])
                rs == IF j.k = "obj" THEN [i \in 1..n |-> OfMember(fields[i])]
                      ELSE [i \in 1..n |-> OfElement(i)]
                shape == \/ /\ j.k = "obj"
                            /\ \A i \in 1..Len(j.o) : KeyOk(j.o[i][1], fields)
                         \/ j.k = "arr" /\ Len(j.a) = n
                v == [name \in {fields[i].field : i \in 1..n} |->
                         rs[CHOOSE i \in 1..n : fields[i].field = name].v]
            IN  IF shape /\ (\A i \in 1..n : rs[i].ok) /\ CrossFieldCheck(ty.name, v)
                THEN Ok(v)
                ELSE Err

\* serde_json::from_reader::<Responses>: the body must be JSON text, and the
\* document must decode as Responses.
FromJson(body) ==
    IF body.k = "invalid" THEN Err ELSE Decode(TStruct("Responses"), body)

(***************************************************************************)
(* The documents a server may answer with.  They are built from documents  *)
(* of the provider's shape by editing one node at a time, and by products  *)
(* over the parts single claims are about.                                 *)
(***************************************************************************)
\* Every node of a JSON tree, as the path of member and element indices.
RECURSIVE Paths(_)
Paths(j) ==
    {<<>>}
    \cup UNION {{<<i>> \o p : p \in Paths(j.a[i])} : i \in 1..Len(j.a)}
    \cup UNION {{<<i>> \o p : p \in Paths(j.o[i][2])} : i \in 1..Len(j.o)}

RECURSIVE At(_, _)
At(j, p) ==
    IF p = <<>> THEN j
    ELSE IF j.k = "arr" THEN At(j.a[p[1]], Tail(p))
    ELSE At(j.o[p[1]][2], Tail(p))

\* j with the node at p replaced by v.
RECURSIVE Put(_, _, _)
Put(j, p, v) ==
    IF p = <<>> THEN v
    ELSE IF j.k = "arr"
         THEN [j EXCEPT !.a[p[1]] = Put(j.a[p[1]], Tail(p), v)]
         ELSE [j EXCEPT !.o[p[1]] = <<j.o[p[1]][1], Put(j.o[p[1]][2], Tail(p), v)>>]

Without(s, i) == SubSeq(s, 1, i - 1) \o SubSeq(s, i + 1, Len(s))

\* j without the member or element at p (p is not the root).
RECURSIVE Del(_, _)
Del(j, p) ==
    IF Len(p) = 1
    THEN IF j.k = "arr" THEN [j EXCEPT !.a = Without(j.a, p[1])]
         ELSE [j EXCEPT !.o = Without(j.o, p[1])]
    ELSE IF j.k = "arr"
         THEN [j EXCEPT !.a[p[1]] = Del(j.a[p[1]], Tail(p))]
         ELSE [j EXCEPT !.o[p[1]] = <<j.o[p[1]][1], Del(j.o[p[1]][2], Tail(p))>>]

\* j with the member <<key, v>> appended to the object at p.
Ins(j, p, key, v) ==
    LET obj == At(j, p)
    IN  Put(j, p, [obj EXCEPT !.o = Append(obj.o, <<key, v>>)])

\* The value of j's first member `key`, as <<value>>, or <<>>.
Get(j, key) ==
    LET idx == Members(j, key)
    IN  IF idx = {} THEN <<>>
        ELSE <<j.o[CHOOSE i \in idx : \A m \in idx : i <= m][2]>>

MetadataJson ==
    JObj(<< <<"user_agent", JStr("Mozilla/5.0")>>,
            <<"platform", JStr("other")>>,
            <<"referer", JStr("https://form.example/to/abc123")>>,
            <<"network_id", JStr("responder-ip")>> >>)

\* A definition.fields entry as the data model of the specification has it.
FieldJson(typeKey) ==
    JObj(<< <<"id", JStr("f1")>>,
            <<typeKey, JStr("short_text")>>,
            <<"title", JStr("Your name?")>>,
            <<"description", JStr("first and last")>> >>)

AnswerFieldJson ==
    JObj(<< <<"id", JStr("f1")>>,
            <<"type", JStr("number")>>,
            <<"ref", JStr("ref1")>>,
            <<"title", JStr("How many?")>> >>)

ChoiceJson == JObj(<< <<"label", JStr("London")>>, <<"other", JStr("elsewhere")>> >>)

ChoicesJson ==
    JObj(<< <<"labels", JArr(<<JStr("New York"), JStr("Tokyo")>>)>>,
            <<"other", JStr("elsewhere")>> >>)

PaymentJson ==
    JObj(<< <<"amount", JStr("12.50")>>,
            <<"last4", JStr("4242")>>,
            <<"name", JStr("A. Person")>> >>)

\* The payload slots of an Answer, each with a value of its type.
Slots ==
    << <<"choice", ChoiceJson>>,
       <<"choices", ChoicesJson>>,
       <<"date", JStr("2020-02-29")>>,
       <<"email", JStr("a@b.example")>>,
       <<"file_url", JStr("https://files.example/f")>>,
       <<"number", JInt(42)>>,
       <<"boolean", JTrue>>,
       <<"text", JStr("hello")>>,
       <<"url", JStr("https://a.example")>>,
       <<"payment", PaymentJson>>,
       <<"phone_number", JStr("+15550100")>> >>

SlotNames == {Slots[i][1] : i \in 1..Len(Slots)}

\* The slots named in `names`, in the order of Slots.
RECURSIVE SlotMembers(_, _)
SlotMembers(names, i) ==
    IF i > Len(Slots) THEN <<>>
    ELSE (IF Slots[i][1] \in names THEN <<Slots[i]>> ELSE <<>>)
         \o SlotMembers(names, i + 1)

\* An Answer with discriminant `type` and the slots `names` populated.
AnswerJson(type, names) ==
    JObj(<< <<"field", AnswerFieldJson>>, <<"type", JStr(type)>> >>
         \o SlotMembers(names, 1))

\* A Response Record with every key present.
ResponseJson(token, fields, answers) ==
    JObj(<< <<"token", JStr(token)>>,
            <<"response_id", JStr(token)>>,
            <<"landed_at", JStr("2020-02-29T10:00:00Z")>>,
            <<"submitted_at", JStr("2020-02-29T10:05:00Z")>>,
            <<"metadata", MetadataJson>>,
            <<"definition", JObj(<< <<"fields", JArr(fields)>> >>)>>,
            <<"answers", JArr(answers)>>,
            <<"calculated", JObj(<< <<"score", JInt(7)>> >>)>> >>)

\* A Response Record with only its required keys.
ResponseMinJson(token) ==
    JObj(<< <<"token", JStr(token)>>,
            <<"landed_at", JStr("2020-02-29T10:00:00Z")>>,
            <<"submitted_at", JStr("2020-02-29T10:05:00Z")>>,
            <<"metadata", Del(MetadataJson, <<2>>)>>,
            <<"calculated", JObj(<< <<"score", JInt(0)>> >>)>> >>)

ResponsesJson(total, pages, items) ==
    JObj(total \o pages \o << <<"items", JArr(items)>> >>)

\* The documents edited node by node.
BaseDocs ==
    { ResponsesJson(<< <<"total_items", JInt(2)>> >>, << <<"page_count", JInt(1)>> >>,
          << ResponseJson("tok1", << FieldJson("_type") >>,
                 << AnswerJson("number", {"number"}),
                    AnswerJson("choice", {"choice"}) >>),
             ResponseMinJson("tok2") >>),
      ResponsesJson(<< <<"total_items", JInt(1)>> >>, << <<"page_count", JInt(1)>> >>,
          << ResponseJson("tok1", << FieldJson("type") >>,
                 << AnswerJson("choices", {"choices"}),
                    AnswerJson("payment", {"payment"}) >>) >>),
      ResponsesJson(<<>>, <<>>,
          << ResponseJson("tok1", <<>>,
                 << AnswerJson("choices", {"choices"}),
                    AnswerJson("payment", {"payment"}) >>) >>) }

\* What a node is replaced by: a value of every JSON kind, the positional
\* forms of Calculated and Metadata, and the map form of a unit variant.
Replacements ==
    { JNull, JTrue, JInt(5), JInt(-1), JNegZero, JBig, JFloat, JStr("s"),
      JArr(<<>>), JObj(<<>>),
      JArr(<<JInt(5)>>),
      JArr(<<JStr("s"), JNull, JStr("s"), JStr("s")>>),
      JObj(<< <<"number", JNull>> >>) }

\* Every document one edit away from d: a node replaced, a member or an
\* element removed, a member repeated, a member added to an object.
Edits(d) ==
    LET ps == Paths(d)
    IN  {Put(d, p, v) : p \in ps, v \in Replacements}
        \cup {Del(d, p) : p \in ps \ {<<>>}}
        \cup {Ins(d, p, "x_added", JObj(<< <<"token", JInt(1)>> >>)) :
                 p \in {q \in ps : At(d, q).k = "obj"}}
        \cup {Ins(d, p, At(d, p).o[1][1], At(d, p).o[1][2]) :
                 p \in {q \in ps : At(d, q).k = "obj" /\ Len(At(d, q).o) > 0}}

EditedDocs == BaseDocs \cup UNION {Edits(d) : d \in BaseDocs}

\* Sequences over S of length at most n.
RECURSIVE SeqsUpTo(_, _)
SeqsUpTo(S, n) ==
    IF n = 0 THEN {<<>>}
    ELSE LET shorter == SeqsUpTo(S, n - 1)
         IN  shorter \cup {Append(s, x) : s \in shorter, x \in S}

\* Counts around the limits of u8 and u16, and item sequences of every
\* length up to MaxItems.
CountedDocs ==
    { ResponsesJson(c[1], c[2], items) :
        c \in {<<<<>>, <<>>>>}
               \cup {<< << <<"total_items", JNegZero>> >>, <<>> >>}
               \cup {<< << <<"total_items", JInt(n)>> >>, <<>> >> :
                        n \in {0, U8Max + 1, U16Max, U16Max + 1}}
               \cup {<< <<>>, << <<"page_count", JInt(n)>> >> >> :
                        n \in {0, U8Max, U8Max + 1}}
               \cup {<< << <<"total_items", JBig>> >>, << <<"page_count", JInt(1)>> >> >>},
        items \in SeqsUpTo({ResponseMinJson("tok1"),
                            ResponseJson("tok2", <<>>, <<>>)}, MaxItems) }

\* Answers of every discriminant with no, one, two or all slots populated.
AnswerDocs ==
    { ResponsesJson(<<>>, <<>>,
          << [ResponseMinJson("tok1") EXCEPT
                 !.o = Append(@, <<"answers", JArr(<<AnswerJson(type, names)>>)>>)] >>) :
        type \in {"number", "choice", "file_url", "phone_number", "long_text"},
        names \in {S \in SUBSET SlotNames : Cardinality(S) <= 2} \cup {SlotNames} }

Docs == {JInvalid} \cup EditedDocs \cup CountedDocs \cup AnswerDocs

(***************************************************************************)
(* The client.                                                             *)
(***************************************************************************)
VARIABLES
    self,       \* the Typeform value: url, form_id, token
    pc,         \* "idle", "built", "received" or "done": the call's position
    call,       \* the operation in progress and its argument
    request,    \* <<the request built by this call>>, or <<>>
    wire,       \* the requests this call handed to the transport, in order
    response,   \* <<the response received by this call>>, or <<>>
    result,     \* <<the Result this call returned>>, or <<>>
    stages      \* the stages this call has run, in order

vars == <<self, pc, call, request, wire, response, result, stages>>

Bearer == <<"B","e","a","r","e","r"," ">>
AfterParam == <<"?","a","f","t","e","r","=">>
PageSizeParam == <<"&","p","a","g","e","_","s","i","z","e","=","1">>

\* A string is a sequence of characters, each a one-character string.  The
\* characters that cannot be written so are written by name: the backquote,
\* the delete character (0x7F) and the control characters (0x00-0x1F) other
\* than "\t", "\n", "\f" and "\r".
Backquote == "BACKQUOTE"
Delete == "DEL"
ControlChars ==
    { "NUL", "SOH", "STX", "ETX", "EOT", "ENQ", "ACK", "BEL", "BS", "\t",
      "\n", "VT", "\f", "\r", "SO", "SI", "DLE", "DC1", "DC2", "DC3", "DC4",
      "NAK", "SYN", "ETB", "CAN", "EM", "SUB", "ESC", "FS", "GS", "RS", "US" }

\* The inputs of the model: form ids, bearer tokens and cursor tokens, over
\* letters, digits, "_", and the characters the request builder treats
\* specially: "#", "?", and those it rejects in a path, in a query or in a
\* header value.
FormIds ==
    { <<"a","b","c","1","2","3">>, <<"f">>, <<>>, <<"a"," ","b">>,
      <<"a","\t","b">>, <<"a","<","b">>, <<"a","#","b">>,
      <<"a","\"","b">>, <<"a","?","\"","b">>, <<"a",Backquote,"b">> }
Tokens ==
    { <<"t","o","k">>, <<"s","3","c","r","3","t">>, <<"t","\n">>, <<"t","\r">>,
      <<"t",Delete>>, <<"t","\t">> }
Cursors ==
    { <<"t","o","k","_","x","y","z">>, <<"c">>, <<"c"," ">>, <<"c","#","d">>,
      <<"c","\"","d">>, <<"c",Backquote,"d">> }
Statuses == {200, 401, 500}

\* Typeform::new
New(form_id, token) ==
    [url |-> DEFAULT_TYPEFORM_URL, form_id |-> form_id, token |-> token]

\* The longest string http::Uri parses.
MAX_LEN == 65534

\* Characters the URI parser rejects in the path: the control characters,
\* the space, "<", ">" and the backquote.
InvalidPathChars == ControlChars \cup {" ", "<", ">", Backquote}
\* Characters the URI parser rejects in the query: the control characters,
\* the space, the double quote, "<" and ">".
InvalidQueryChars == ControlChars \cup {" ", "\"", "<", ">"}
\* Characters a header value cannot hold: the control characters other than
\* the tab, and the delete character.
InvalidHeaderChars == (ControlChars \ {"\t"}) \cup {Delete}

\* Parsing a string into a URI ends at the first "#": the fragment, with
\* everything after it, is neither checked nor part of the URI.
RECURSIVE StripFragment(_)
StripFragment(uri) ==
    IF uri = <<>> \/ uri[1] = "#" THEN <<>>
    ELSE <<uri[1]>> \o StripFragment(Tail(uri))

\* The position of the first "?" of s, or Len(s) + 1: where the query opens.
QueryStart(s) ==
    IF \E i \in 1..Len(s) : s[i] = "?"
    THEN CHOOSE i \in 1..Len(s) : s[i] = "?" /\ \A k \in 1..(i - 1) : s[k] # "?"
    ELSE Len(s) + 1

\* http::Uri parses the string given to Request::get: it is not longer than
\* MAX_LEN, and before the fragment every character up to the first "?" is
\* one of a path and every character after it one of a query.  The scheme
\* and the authority are those of the constant base URL.
UriOk(uri) ==
    LET s == StripFragment(uri)
        q == QueryStart(s)
    IN  /\ Len(uri) <= MAX_LEN
        /\ \A i \in 1..Len(s) :
              /\ i < q => s[i] \notin InvalidPathChars
              /\ i > q => s[i] \notin InvalidQueryChars
HeaderValueOk(v) == \A i \in 1..Len(v) : v[i] \notin InvalidHeaderChars

\* The messages of the three map_err closures, without the cause.
BuildFailed == "Failed to build a request"
SendFailed == "Failed to send get request"
DeserializeFailed == "Failed to deserialize a response"

Success(v) == [ok |-> TRUE, v |-> v, err |-> ""]
Failure(msg) == [ok |-> FALSE, v |-> <<>>, err |-> msg]

\* http::request::Builder::body: the request exists only when its URI and
\* its header value are well-formed.
BuildOk(uri, token) == UriOk(uri) /\ HeaderValueOk(Bearer \o token)

\* Request::get(..).header("Authorization", ..).body(()), before the check
\* of body().
Get_(uri, token) ==
    [ method |-> "GET",
      uri |-> StripFragment(uri),
      headers |-> << <<"Authorization", Bearer \o token>> >>,
      body |-> <<>> ]

\* format!("{}{}", self.url, GET_FORM_RESPONSES_PATH.replace(..))
ResponsesUri(t) ==
    t.url \o Replace(GET_FORM_RESPONSES_PATH, FormIdPlaceholder, t.form_id)

\* format!("{}{}?after={}&page_size=1", self.url, .., token)
ResponsesAfterUri(t, token) ==
    t.url \o Replace(GET_FORM_RESPONSES_PATH, FormIdPlaceholder, t.form_id)
          \o AfterParam \o token \o PageSizeParam

\* A response is decoded only when its status is a success.
JsonCheckingStatus(resp) ==
    IF resp.status >= 400 THEN Failure(DeserializeFailed)
    ELSE LET r == FromJson(resp.body)
         IN  IF r.ok THEN Success(r.v) ELSE Failure(DeserializeFailed)

\* .json().map_err(..): the body alone decides.
Json(resp) ==
    LET r == FromJson(resp.body)
    IN  IF r.ok THEN Success(r.v) ELSE Failure(DeserializeFailed)

\* The build stage of a call: the request is kept, or the call returns the
\* build error.
Build(op, arg, uri) ==
    /\ pc \in {"idle", "done"}
    /\ call' = [op |-> op, arg |-> arg]
    /\ stages' = <<"build">>
    /\ wire' = <<>>
    /\ response' = <<>>
    /\ IF BuildOk(uri, self.token)
       THEN /\ request' = <<Get_(uri, self.token)>>
            /\ result' = <<>>
            /\ pc' = "built"
       ELSE /\ request' = <<>>
            /\ result' = <<Failure(BuildFailed)>>
            /\ pc' = "done"
    /\ UNCHANGED self

\* Typeform::responses, up to send()
responses == Build("responses", <<>>, ResponsesUri(self))

\* Typeform::responses_after, up to send()
responses_after ==
    \E token \in Cursors :
        Build("responses_after", token, ResponsesAfterUri(self, token))

\* What a failed send() leads to: the error is returned.
AfterSendFailureRetry ==
    /\ pc' = "built"
    /\ result' = <<>>
    /\ stages' = stages

AfterSendFailure ==
    /\ pc' = "done"
    /\ result' = <<Failure(SendFailed)>>
    /\ stages' = Append(stages, "send")

\* send() fails: no response arrives.
SendFails ==
    /\ pc = "built"
    /\ wire' = Append(wire, request[1])
    /\ AfterSendFailure
    /\ UNCHANGED <<self, call, request, response>>

\* send() succeeds: the server answers with one of `statuses` and one of
\* `bodies`.
Send(statuses, bodies) ==
    /\ pc = "built"
    /\ wire' = Append(wire, request[1])
    /\ \E status \in statuses, body \in bodies :
           response' = <<[status |-> status, body |-> body]>>
    /\ stages' = Append(stages, "send")
    /\ pc' = "received"
    /\ UNCHANGED <<self, call, request, result>>

\* json() on the response, and the return of the call.
Decoded ==
    /\ pc = "received"
    /\ result' = <<Json(response[1])>>
    /\ stages' = Append(stages, "decode")
    /\ pc' = "done"
    /\ UNCHANGED <<self, call, request, wire, response>>

Idle ==
    /\ pc = "idle"
    /\ call = [op |-> "none", arg |-> <<>>]
    /\ request = <<>>
    /\ wire = <<>>
    /\ response = <<>>
    /\ result = <<>>
    /\ stages = <<>>

\* The bodies of the request-level specification: a few documents of each
\* outcome.
HttpBodies ==
    { JInvalid, JNull, JObj(<<>>),
      ResponsesJson(<<>>, <<>>, <<>>),
      ResponsesJson(<< <<"total_items", JInt(1)>> >>, << <<"page_count", JInt(1)>> >>,
                    << ResponseMinJson("tok1") >>),
      ResponsesJson(<<>>, <<>>, << Del(ResponseMinJson("tok1"), <<1>>) >>) }

\* Any client, both operations, a few bodies.
Init ==
    /\ \E form_id \in FormIds, token \in Tokens : self = New(form_id, token)
    /\ Idle

SendHttp == Send(Statuses, HttpBodies)

Next == responses \/ responses_after \/ SendFails \/ SendHttp \/ Decoded

Spec == Init /\ [][Next]_vars

\* One client, one operation, one status, and every document of Docs as the
\* body.
InitDecode ==
    /\ self = New(<<"a","b","c","1","2","3">>, <<"t","o","k">>)
    /\ Idle

SendDocs == Send({200}, Docs)

NextDecode == responses \/ SendFails \/ SendDocs \/ Decoded

SpecDecode == InitDecode /\ [][NextDecode]_vars

(***************************************************************************)
(* The requests a call issues, and the stages it runs (Spec).              *)
(***************************************************************************)
FormsSegment == <<"/","f","o","r","m","s","/">>
ResponsesSegment == <<"/","r","e","s","p","o","n","s","e","s">>
Abc123 == <<"a","b","c","1","2","3">>
TokXyz == <<"t","o","k","_","x","y","z">>
HasChar(s, c) == \E i \in 1..Len(s) : s[i] = c

\* The URL of the specification: {base_url}/forms/{form_id}/responses.
ExpectedUrl == self.url \o FormsSegment \o self.form_id \o ResponsesSegment

\* C1: once responses() has handed its request to the transport, exactly one
\* request is on the wire: a GET to the base URL followed by
\* /forms/<form_id>/responses and nothing else, with the one header
\* Authorization: Bearer <token> of the constructor's token and no body.
C1_ResponsesRequest ==
    (call.op = "responses" /\ pc \in {"received", "done"} /\ request # <<>>) =>
        /\ Len(wire) = 1
        /\ wire[1].method = "GET"
        /\ self.url = DEFAULT_TYPEFORM_URL
        /\ wire[1].uri = ExpectedUrl
        /\ wire[1].headers = << <<"Authorization", Bearer \o self.token>> >>
        /\ wire[1].body = <<>>

\* C1, for a form id without "#": the request is the one C1 states; and
\* whatever the form id, it is one GET with that header and no body.
C1_ResponsesRequestNoFragment ==
    (call.op = "responses" /\ pc \in {"received", "done"} /\ request # <<>>) =>
        /\ Len(wire) = 1
        /\ wire[1].method = "GET"
        /\ wire[1].headers = << <<"Authorization", Bearer \o self.token>> >>
        /\ wire[1].body = <<>>
        /\ ~HasChar(self.form_id, "#") => wire[1].uri = ExpectedUrl

\* responses() for form id "abc123" has returned a decoded collection after
\* sending its request.
C1_Witness ==
    /\ call.op = "responses"
    /\ pc = "done"
    /\ self.form_id = Abc123
    /\ Len(wire) = 1
    /\ wire[1].uri = DEFAULT_TYPEFORM_URL \o FormsSegment \o Abc123 \o ResponsesSegment
    /\ result[1].ok

\* C2: once responses_after(cursor) has handed its request to the transport,
\* exactly one request is on the wire: a GET to
\* {base_url}/forms/<form_id>/responses?after=<cursor>&page_size=1 with the
\* cursor unchanged, and with the header of responses().
C2_ResponsesAfterRequest ==
    (call.op = "responses_after" /\ pc \in {"received", "done"} /\ request # <<>>) =>
        /\ Len(wire) = 1
        /\ wire[1].method = "GET"
        /\ wire[1].uri = ExpectedUrl \o AfterParam \o call.arg \o PageSizeParam
        /\ wire[1].headers = Get_(ResponsesUri(self), self.token).headers
        /\ wire[1].headers = << <<"Authorization", Bearer \o self.token>> >>
        /\ wire[1].body = <<>>

\* C2, for a form id and a cursor without "#": the request is the one C2
\* states; and whatever they hold, it is one GET with the header of
\* responses() and no body.
C2_ResponsesAfterRequestNoFragment ==
    (call.op = "responses_after" /\ pc \in {"received", "done"} /\ request # <<>>) =>
        /\ Len(wire) = 1
        /\ wire[1].method = "GET"
        /\ wire[1].headers = Get_(ResponsesUri(self), self.token).headers
        /\ wire[1].headers = << <<"Authorization", Bearer \o self.token>> >>
        /\ wire[1].body = <<>>
        /\ (~HasChar(self.form_id, "#") /\ ~HasChar(call.arg, "#")) =>
              wire[1].uri = ExpectedUrl \o AfterParam \o call.arg \o PageSizeParam

\* responses_after("tok_xyz") has sent its request.
C2_Witness ==
    /\ call.op = "responses_after"
    /\ call.arg = TokXyz
    /\ pc = "received"
    /\ Len(wire) = 1
    /\ wire[1].uri = ExpectedUrl \o AfterParam \o TokXyz \o PageSizeParam

IsPrefix(s, t) == Len(s) <= Len(t) /\ s = SubSeq(t, 1, Len(s))

\* The inputs of the call in progress make the request impossible to
\* build: the URL they spell is not a URI, or the token is not a header
\* value.
Unbuildable ==
    \/ ~HeaderValueOk(Bearer \o self.token)
    \/ ~UriOk(IF call.op = "responses_after"
              THEN ExpectedUrl \o AfterParam \o call.arg \o PageSizeParam
              ELSE ExpectedUrl)

\* C3: a call runs build, send, decode in that order; the first stage that
\* fails ends the call with the error of that stage and no later stage
\* runs; at most one request is sent per call, and none when the build
\* fails.
C3_StagesAndErrors ==
    /\ IsPrefix(stages, <<"build", "send", "decode">>)
    /\ Len(wire) <= 1
    /\ (pc # "idle" /\ Unbuildable) =>
          /\ pc = "done"
          /\ ~result[1].ok /\ result[1].err = BuildFailed
          /\ stages = <<"build">>
          /\ wire = <<>> /\ response = <<>>
    /\ (pc = "done" /\ ~Unbuildable /\ response = <<>>) =>
          /\ ~result[1].ok /\ result[1].err = SendFailed
          /\ stages = <<"build", "send">>
          /\ Len(wire) = 1
    /\ (pc = "done" /\ response # <<>>) =>
          /\ stages = <<"build", "send", "decode">>
          /\ Len(wire) = 1
          /\ result[1].ok \/ result[1].err = DeserializeFailed
    /\ (pc = "done" /\ ~result[1].ok) =>
          \/ result[1].err = BuildFailed /\ stages = <<"build">>
          \/ result[1].err = SendFailed /\ stages = <<"build", "send">>
          \/ result[1].err = DeserializeFailed /\ stages = <<"build", "send", "decode">>

\* A call whose send failed has returned the send error after one request.
C3_Witness ==
    /\ pc = "done"
    /\ ~result[1].ok
    /\ result[1].err = SendFailed
    /\ Len(wire) = 1

\* C4: the result of a call whose response arrived is decided by the body:
\* it is what the same body gives under every other status, a success
\* exactly when the body decodes as Responses, and the decode error
\* otherwise.
C4_StatusIgnored ==
    (pc = "done" /\ response # <<>>) =>
        /\ \A s \in Statuses :
              Json([status |-> s, body |-> response[1].body]) = result[1]
        /\ result[1].ok = FromJson(response[1].body).ok
        /\ ~result[1].ok => result[1].err = DeserializeFailed

\* A response of status 500 whose body decodes gave a success with its item.
C4_Witness ==
    /\ pc = "done"
    /\ response # <<>>
    /\ response[1].status = 500
    /\ result[1].ok
    /\ Len(result[1].v["items"]) = 1

(***************************************************************************)
(* Decoding (SpecDecode).  In the formulas below Body is the body of the   *)
(* response the call received and Returned the Result it returned.         *)
(***************************************************************************)
Body == response[1].body
Returned == result[1]
Answered == pc = "done" /\ response # <<>>
TResponses == TStruct("Responses")
TResponse == TStruct("Response")

\* The items of a document, when it is an object whose items is an array.
ItemsJson(d) ==
    IF d.k = "obj" /\ Get(d, "items") # <<>> /\ Get(d, "items")[1].k = "arr"
    THEN Get(d, "items")[1].a
    ELSE <<>>

(***************************************************************************)
(* The shape of the specification's data model, read off the document      *)
(* alone: records are objects, a required key is present, an optional key  *)
(* is absent or holds a value of its shape, a count is any non-negative    *)
(* integer, a definition.fields entry carries its type tag under "type",   *)
(* the discriminant is one of the eleven names; other keys are free.       *)
(***************************************************************************)
ShapeFields(name) == IF name = "Field" THEN FieldRenamed ELSE StructFields(name)

RECURSIVE Conforms(_, _)
Conforms(ty, j) ==
    CASE ty.t = "String" -> j.k = "str"
      [] ty.t = "bool" -> j.k = "bool"
      [] ty.t = "int" ->
            IF ty.name = "i32" THEN j.k \in {"int", "negzero"}
            ELSE j.k \in {"big", "negzero"} \/ (j.k = "int" /\ j.n >= 0)
      [] ty.t = "Option" -> Conforms(ty.of[1], j)
      [] ty.t = "newtype" -> Conforms(ty.of[1], j)
      [] ty.t = "Vec" -> j.k = "arr" /\ \A i \in 1..Len(j.a) : Conforms(ty.of[1], j.a[i])
      [] ty.t = "enum" -> j.k = "str" /\ \E i \in 1..Len(AnswerType) : AnswerType[i].wire = j.s
      [] ty.t = "struct" ->
            /\ j.k = "obj"
            /\ \A i \in 1..Len(ShapeFields(ty.name)) :
                  LET f == ShapeFields(ty.name)[i]
                      idx == Members(j, f.wire)
                  IN  /\ Cardinality(idx) <= 1
                      /\ idx = {} => f.ty.t = "Option"
                      /\ \A m \in idx : Conforms(f.ty, j.o[m][2])

\* The counts of a document fit the integer types the code gives them.
CountsFit(d) ==
    /\ \A m \in Members(d, "total_items") : d.o[m][2].k = "int" /\ d.o[m][2].n <= U16Max
    /\ \A m \in Members(d, "page_count") : d.o[m][2].k = "int" /\ d.o[m][2].n <= U8Max

\* The definition.fields entries of a Response Record.
FieldEntries(item) ==
    IF item.k = "obj" /\ Get(item, "definition") # <<>>
       /\ Get(Get(item, "definition")[1], "fields") # <<>>
    THEN Get(Get(item, "definition")[1], "fields")[1].a
    ELSE <<>>

HasFieldEntry(d) == \E i \in 1..Len(ItemsJson(d)) : FieldEntries(ItemsJson(d)[i]) # <<>>

\* C7 (as claimed): a document of the specification's Paged Collection
\* shape, with any non-negative counts, decodes, and the decoded items are
\* the decodings of the array's elements, as many and in the same order.
C7_WellFormedDecodes ==
    (Answered /\ Conforms(TResponses, Body)) =>
        /\ Returned.ok
        /\ Len(Returned.v["items"]) = Len(ItemsJson(Body))
        /\ \A i \in 1..Len(ItemsJson(Body)) :
              Returned.v["items"][i] = Decode(TResponse, ItemsJson(Body)[i]).v

\* C10 (as claimed): a document whose definition.fields entries carry the
\* four string keys id, type, title and description decodes, with the
\* entries in their order; an entry lacking one of the four fails the
\* decode.
C10_FieldEntriesDecode ==
    /\ (Answered /\ Conforms(TResponses, Body) /\ CountsFit(Body) /\ HasFieldEntry(Body)) =>
          /\ Returned.ok
          /\ \A i \in 1..Len(ItemsJson(Body)) :
                LET es == FieldEntries(ItemsJson(Body)[i])
                IN  \A e \in 1..Len(es) :
                       Returned.v["items"][i]["definition"][1]["fields"][e]["id"]
                          = Get(es[e], "id")[1].s
    /\ (Answered /\ \E i \in 1..Len(ItemsJson(Body)) :
                      \E e \in 1..Len(FieldEntries(ItemsJson(Body)[i])) :
                         \E key \in {"id", "type", "title", "description"} :
                            Get(FieldEntries(ItemsJson(Body)[i])[e], key) = <<>>) =>
          ~Returned.ok

(***************************************************************************)
(* Required fields that are missing or of the wrong type.  `positional`    *)
(* says how an array standing where a record is expected, and an object    *)
(* standing where the discriminant is expected, are read: FALSE counts     *)
(* both as values of the wrong type; TRUE reads the array as the record's  *)
(* fields in declaration order and the object {"<name>": null} as the      *)
(* discriminant <name>.                                                    *)
(***************************************************************************)
RECURSIVE WrongType(_, _, _)
WrongType(positional, ty, j) ==
    CASE ty.t = "String" -> j.k # "str"
      [] ty.t = "bool" -> j.k # "bool"
      [] ty.t = "int" -> j.k \notin {"int", "negzero", "big"}
      [] ty.t = "Option" -> j.k # "null" /\ WrongType(positional, ty.of[1], j)
      [] ty.t = "newtype" -> WrongType(positional, ty.of[1], j)
      [] ty.t = "Vec" -> j.k # "arr"
      [] ty.t = "enum" ->
            IF positional
            THEN /\ j.k # "str"
                 /\ ~(j.k = "obj" /\ Len(j.o) = 1 /\ j.o[1][2].k = "null")
            ELSE j.k # "str"
      [] ty.t = "struct" ->
            IF positional THEN j.k \notin {"obj", "arr"} ELSE j.k # "obj"

RECURSIVE Broken(_, _, _)
Broken(positional, ty, j) ==
    \/ WrongType(positional, ty, j)
    \/ CASE ty.t \in {"Option", "newtype"} ->
              j.k # "null" /\ Broken(positional, ty.of[1], j)
         [] ty.t = "Vec" -> \E i \in 1..Len(j.a) : Broken(positional, ty.of[1], j.a[i])
         [] ty.t = "struct" /\ j.k = "obj" ->
              \E i \in 1..Len(StructFields(ty.name)) :
                 LET f == StructFields(ty.name)[i]
                     idx == Members(j, f.wire)
                 IN  IF f.ty.t = "Option"
                     THEN \E m \in idx :
                             /\ ~WrongType(positional, f.ty, j.o[m][2])
                             /\ Broken(positional, f.ty, j.o[m][2])
                     ELSE idx = {} \/ \E m \in idx : Broken(positional, f.ty, j.o[m][2])
         [] ty.t = "struct" /\ j.k = "arr" ->
              \/ Len(j.a) # Len(StructFields(ty.name))
              \/ \E i \in 1..Len(j.a) :
                    LET f == StructFields(ty.name)[i]
                    IN  IF f.ty.t = "Option"
                        THEN /\ ~WrongType(positional, f.ty, j.a[i])
                             /\ Broken(positional, f.ty, j.a[i])
                        ELSE Broken(positional, f.ty, j.a[i])
         [] OTHER -> FALSE

\* C5 (as claimed): a body that is not JSON, or in which a required field
\* is missing or has the wrong type anywhere in the tree, makes the call
\* return the decode error and no value.
C5_BrokenFails ==
    (Answered /\ (Body.k = "invalid" \/ Broken(FALSE, TResponses, Body))) =>
        /\ ~Returned.ok
        /\ Returned.err = DeserializeFailed
        /\ Returned.v = <<>>

\* C5 (amended): the same, where an array standing for a record is read as
\* the record's fields in order and {"<name>": null} as the discriminant
\* <name>, so that neither is by itself a value of the wrong type.
C5_BrokenFailsPositional ==
    (Answered /\ (Body.k = "invalid" \/ Broken(TRUE, TResponses, Body))) =>
        /\ ~Returned.ok
        /\ Returned.err = DeserializeFailed
        /\ Returned.v = <<>>

\* A document of two items, the first without its token and the second
\* well-formed, was answered with the decode error.
C5_Witness ==
    /\ Answered
    /\ Len(ItemsJson(Body)) = 2
    /\ ItemsJson(Body)[1].k = "obj"
    /\ Get(ItemsJson(Body)[1], "token") = <<>>
    /\ Decode(TResponse, ItemsJson(Body)[2]).ok
    /\ ~Returned.ok
    /\ Returned.err = DeserializeFailed

(***************************************************************************)
(* Documents rewritten along their types: members removed, members added.  *)
(***************************************************************************)
\* The field of struct `name` with wire key `key`, as <<field>>, or <<>>.
FieldOf(name, key) ==
    LET fs == StructFields(name)
        hit == {i \in 1..Len(fs) : fs[i].wire = key}
    IN  IF hit = {} THEN <<>> ELSE <<fs[CHOOSE i \in hit : TRUE]>>

\* j without the members <<struct, key>> of sel, wherever a record of that
\* struct stands as an object.
RECURSIVE Strip(_, _, _)
Strip(ty, j, sel) ==
    CASE ty.t \in {"Option", "newtype"} -> Strip(ty.of[1], j, sel)
      [] ty.t = "Vec" /\ j.k = "arr" ->
            [j EXCEPT !.a = [i \in 1..Len(j.a) |-> Strip(ty.of[1], j.a[i], sel)]]
      [] ty.t = "struct" /\ j.k = "obj" ->
            LET kept == SelectSeq(j.o, LAMBDA m : <<ty.name, m[1]>> \notin sel)
            IN  [j EXCEPT !.o =
                    [i \in 1..Len(kept) |->
                        IF FieldOf(ty.name, kept[i][1]) = <<>> THEN kept[i]
                        ELSE <<kept[i][1],
                               Strip(FieldOf(ty.name, kept[i][1])[1].ty, kept[i][2], sel)>>]]
      [] OTHER -> j

\* The decoded value v with the fields <<struct, key>> of sel absent.
RECURSIVE StripVal(_, _, _)
StripVal(ty, v, sel) ==
    CASE ty.t \in {"Option", "newtype"} ->
            IF v = <<>> THEN v ELSE <<StripVal(ty.of[1], v[1], sel)>>
      [] ty.t = "Vec" -> [i \in 1..Len(v) |-> StripVal(ty.of[1], v[i], sel)]
      [] ty.t = "struct" ->
            LET fs == StructFields(ty.name)
            IN  [name \in DOMAIN v |->
                    LET f == fs[CHOOSE i \in 1..Len(fs) : fs[i].field = name]
                    IN  IF <<ty.name, f.wire>> \in sel THEN <<>>
                        ELSE StripVal(f.ty, v[name], sel)]
      [] OTHER -> v

\* j with the member <<key, val>> appended to every object that stands for
\* a record of a struct in `structs`.
RECURSIVE AddKeys(_, _, _, _, _)
AddKeys(ty, j, structs, key, val) ==
    CASE ty.t \in {"Option", "newtype"} -> AddKeys(ty.of[1], j, structs, key, val)
      [] ty.t = "Vec" /\ j.k = "arr" ->
            [j EXCEPT !.a = [i \in 1..Len(j.a) |->
                                AddKeys(ty.of[1], j.a[i], structs, key, val)]]
      [] ty.t = "struct" /\ j.k = "obj" ->
            LET inner == [i \in 1..Len(j.o) |->
                            IF FieldOf(ty.name, j.o[i][1]) = <<>> THEN j.o[i]
                            ELSE <<j.o[i][1],
                                   AddKeys(FieldOf(ty.name, j.o[i][1])[1].ty, j.o[i][2],
                                           structs, key, val)>>]
            IN  [j EXCEPT !.o = IF ty.name \in structs
                                THEN Append(inner, <<key, val>>)
                                ELSE inner]
      [] OTHER -> j

\* The optional fields, as the specification lists them.
OptionalKeys ==
    { <<"Responses", "total_items">>, <<"Responses", "page_count">>,
      <<"Response", "definition">>, <<"Response", "answers">>,
      <<"Response", "response_id">>, <<"Metadata", "platform">>,
      <<"AnswerField", "title">>, <<"Choice", "other">>, <<"Choices", "other">> }
    \cup {<<"Answer", slot>> : slot \in SlotNames}

\* The subsets tried: none, each one, all but each one, all.
OptionalSubsets ==
    {{}} \cup {{k} : k \in OptionalKeys}
         \cup {OptionalKeys \ {k} : k \in OptionalKeys}
         \cup {OptionalKeys}

\* C6: when a document decodes, the document without any subset of its
\* optional members decodes too, to the same value with exactly the removed
\* fields absent; and a document holding no optional member at all decodes
\* with every optional field absent.
C6_OptionalOmitted ==
    (Answered /\ Returned.ok) =>
        \A sel \in OptionalSubsets :
            LET r == FromJson(Strip(TResponses, Body, sel))
            IN  /\ r.ok
                /\ r.v = StripVal(TResponses, Returned.v, sel)
                /\ sel = OptionalKeys =>
                      /\ r.v["total_items"] = <<>>
                      /\ r.v["page_count"] = <<>>
                      /\ \A i \in 1..Len(r.v["items"]) :
                            /\ r.v["items"][i]["definition"] = <<>>
                            /\ r.v["items"][i]["answers"] = <<>>
                            /\ r.v["items"][i]["response_id"] = <<>>
                            /\ r.v["items"][i]["metadata"]["platform"] = <<>>

\* A document without total_items, page_count, definition, answers,
\* response_id and platform decoded, with those fields absent.
C6_Witness ==
    /\ Answered
    /\ Body.k = "obj"
    /\ Get(Body, "total_items") = <<>>
    /\ Get(Body, "page_count") = <<>>
    /\ Len(ItemsJson(Body)) = 1
    /\ ItemsJson(Body)[1].k = "obj"
    /\ \A key \in {"definition", "answers", "response_id"} :
          Get(ItemsJson(Body)[1], key) = <<>>
    /\ Returned.ok
    /\ Returned.v["total_items"] = <<>>
    /\ Returned.v["page_count"] = <<>>
    /\ Len(Returned.v["items"]) = 1
    /\ Returned.v["items"][1]["token"] = "tok1"
    /\ Returned.v["items"][1]["definition"] = <<>>
    /\ Returned.v["items"][1]["answers"] = <<>>
    /\ Returned.v["items"][1]["metadata"]["platform"] = <<>>

StructNames ==
    { "Responses", "Response", "Metadata", "Definition", "Field", "Answer",
      "AnswerField", "Choice", "Choices", "Payment", "Calculated" }

\* The members added: names no struct knows, with a null and with a nested
\* object that reuses known names.
ExtraMembers ==
    { <<"x_unknown", JNull>>,
      <<"_links", JObj(<< <<"token", JInt(1)>>, <<"items", JArr(<<JStr("s")>>)>> >>)>> }

\* C8: when a document decodes, the document with an unknown member added
\* to the top-level object, to the objects of any one struct, or to every
\* object decodes too, to the same value.
C8_UnknownKeysIgnored ==
    (Answered /\ Returned.ok) =>
        \A structs \in {{n} : n \in StructNames} \cup {StructNames} :
            \A m \in ExtraMembers :
                LET r == FromJson(AddKeys(TResponses, Body, structs, m[1], m[2]))
                IN  r.ok /\ r.v = Returned.v

\* A document of two items carrying an unknown member, at the top level or
\* inside a Response Record, decoded.
C8_Witness ==
    /\ Answered
    /\ Returned.ok
    /\ \/ Body.k = "obj" /\ Get(Body, "x_added") # <<>>
       \/ \E i \in 1..Len(ItemsJson(Body)) :
             ItemsJson(Body)[i].k = "obj" /\ Get(ItemsJson(Body)[i], "x_added") # <<>>
    /\ Len(Returned.v["items"]) = 2

\* The answers of a Response Record, when they are an array.
AnswersJson(item) ==
    IF item.k = "obj" /\ Get(item, "answers") # <<>> /\ Get(item, "answers")[1].k = "arr"
    THEN Get(item, "answers")[1].a
    ELSE <<>>

\* The keys of object j among the payload slots.
SlotKeys(j) == {slot \in SlotNames : Get(j, slot) # <<>>}

\* C9 (as claimed): a payload slot is present in the decoded Answer exactly
\* when its key is present in the JSON object.
C9_SlotIffKey ==
    (Answered /\ Returned.ok) =>
        \A i \in 1..Len(ItemsJson(Body)) :
            \A a \in 1..Len(AnswersJson(ItemsJson(Body)[i])) :
                LET ja == AnswersJson(ItemsJson(Body)[i])[a]
                    da == Returned.v["items"][i]["answers"][1][1][a]
                IN  ja.k = "obj" =>
                       \A slot \in SlotNames : (da[slot] # <<>>) <=> (slot \in SlotKeys(ja))

\* C9 (amended): a payload slot is present in the decoded Answer exactly
\* when its key is present with a value other than null; an Answer of type
\* "number" with only number populated has that slot and no other; and an
\* Answer whose discriminant is one of the eleven names and whose populated
\* slots hold values of their shapes (number not written -0) decodes,
\* whichever slots they are.
C9_SlotIffValue ==
    /\ (Answered /\ Returned.ok) =>
          \A i \in 1..Len(ItemsJson(Body)) :
              \A a \in 1..Len(AnswersJson(ItemsJson(Body)[i])) :
                  LET ja == AnswersJson(ItemsJson(Body)[i])[a]
                      da == Returned.v["items"][i]["answers"][1][1][a]
                  IN  ja.k = "obj" =>
                         /\ \A slot \in SlotNames :
                               (da[slot] # <<>>) <=>
                                  (slot \in SlotKeys(ja) /\ Get(ja, slot)[1].k # "null")
                         /\ (Get(ja, "type") = <<JStr("number")>>
                               /\ SlotKeys(ja) = {"number"}
                               /\ Get(ja, "number")[1].k = "int") =>
                               /\ da["number"] = <<Get(ja, "number")[1].n>>
                               /\ \A slot \in SlotNames \ {"number"} : da[slot] = <<>>
    /\ Answered =>
          \A i \in 1..Len(ItemsJson(Body)) :
              \A a \in 1..Len(AnswersJson(ItemsJson(Body)[i])) :
                  LET ja == AnswersJson(ItemsJson(Body)[i])[a]
                  IN  (Conforms(TStruct("Answer"), ja) /\ Get(ja, "number") # <<JNegZero>>)
                         => Decode(TStruct("Answer"), ja).ok

\* An Answer of type "number" that populates choice and text instead of
\* number decoded, with exactly those two slots present.
C9_Witness ==
    /\ Answered
    /\ Returned.ok
    /\ Len(ItemsJson(Body)) = 1
    /\ Len(AnswersJson(ItemsJson(Body)[1])) = 1
    /\ LET ja == AnswersJson(ItemsJson(Body)[1])[1]
           da == Returned.v["items"][1]["answers"][1][1][1]
       IN  /\ Get(ja, "type") = <<JStr("number")>>
           /\ SlotKeys(ja) = {"choice", "text"}
           /\ da["_type"] = "Number"
           /\ da["number"] = <<>>
           /\ da["text"] = <<"hello">>
           /\ da["choice"] # <<>>

====
